---- MODULE Spec2Model ----
(***************************************************************************)
(* gen_pair_pseudo.c: generation of two probable primes p, q and of the    *)
(* exponents e, d of an RSA style key (FIPS 186-3 B.3.1 / B.3.3), on top   *)
(* of the GMP big integer library.                                         *)
(*                                                                         *)
(* The state is that of main() and of the function it is executing.  One   *)
(* action is one call of an input function, one pass through the body of   *)
(* the while(1) loop of fnCreate_pseudo_prime or of fnGet_exponent_e, or   *)
(* one call of fnCompute_exponent_d.  The values mpz_urandomb returns are  *)
(* chosen nondeterministically: every sequence of draws is a behaviour.      *)
(* Numbers are scaled down (key lengths of a few bits), the code is not.   *)
(***************************************************************************)
EXTENDS Integers, Sequences, FiniteSets, TLC

\* ------------------------------------------------------------------ bounds
\* largest key length (nlen) typed at the prompt of fnGet_key_length
MaxKeyLen == 11
\* largest exponent e typed at the prompt of fnGet_exponent_e
MaxE == 4
\* largest p, q handed to fnCompute_exponent_d when it is exercised alone
MaxP == 7
\* the generator state is kept as the number of draws modulo RndPeriod
RndPeriod == 2
\* the uncounted rejections of a call are counted up to SkipCap
SkipCap == 1

\* ------------------------------------------------------- program constants
\* #define NUMTESTS (50)
NUMTESTS == 50

VARIABLES
  pc,        \* position of main(): which call it is about to make / is in
  nBitLen,   \* main: key length nlen
  nHalfLen,  \* main: nBitLen / 2, the bit length of each prime
  mpzE,      \* main: public exponent e
  mpzP1,     \* main: first prime  (0 until fnCreate_pseudo_prime stores it)
  mpzP2,     \* main: second prime (0 until fnCreate_pseudo_prime stores it)
  mpzD,      \* main: private exponent d
  rndState,  \* global generator: "unseeded", or the draws made modulo RndPeriod
  i,         \* fnCreate_pseudo_prime: number of iterations counted
  n,         \* fnCreate_pseudo_prime: the candidate of the current pass
  retval,    \* fnCreate_pseudo_prime: last result of mpz_probab_prime_p
  err,       \* which exit(1) ended the process, "none" while it runs
  warned,    \* fnCompute_exponent_d printed "Exponent too small"
  skipped,   \* history: passes of the current call abandoned by continue,
             \* which never reach i++ (counted up to SkipCap)
  last       \* history: how the last pass through the loop body ended

vars == <<pc, nBitLen, nHalfLen, mpzE, mpzP1, mpzP2, mpzD, rndState,
          i, n, retval, err, warned, skipped, last>>

\* ------------------------------------------------------------ GMP helpers
RECURSIVE Pow2(_)
\* mpz_set_ui(x, 1); mpz_mul_2exp(x, x, k)
Pow2(k) == IF k = 0 THEN 1 ELSE 2 * Pow2(k - 1)

\* mpz_abs
Abs(x) == IF x < 0 THEN -x ELSE x

RECURSIVE GCD(_, _)
\* mpz_gcd on non-negative operands; gcd(0, 0) = 0
GCD(a, b) == IF b = 0 THEN a ELSE GCD(b, a % b)

\* mpz_probab_prime_p(x, reps): 2 = certainly prime, 1 = probably prime,
\* 0 = composite.  For operands this small GMP decides by trial division and
\* answers 2 or 0.
ProbabPrime(x, reps) ==
  IF x >= 2 /\ \A k \in 2..(x - 1) : x % k # 0 THEN 2 ELSE 0

RECURSIVE GcdExt(_, _, _, _)
\* mpz_gcdext by Euclid's algorithm on the pairs (r0, s0), (r1, s1), where
\* s0 * a = r0 and s1 * a = r1 modulo b for the operands a, b it started
\* from; the result is <<g, s>> with s * a = g = gcd(a, b) modulo b
GcdExt(r0, r1, s0, s1) ==
  IF r1 = 0 THEN <<r0, s0>>
  ELSE GcdExt(r1, r0 % r1, s1, s0 - (r0 \div r1) * s1)

\* mpz_invert(rop, op1, op2), op2 >= 1: the return value is 0 when gcd(op1,
\* op2) # 1, else it is non zero and rop is the inverse in [0, op2).
\* Modulo 1 every number is invertible and its inverse is 0 (GMP 6).
Invert(op1, op2) ==
  LET r == GcdExt(op1 % op2, op2, 1, 0)
  IN  IF r[1] # 1 THEN [ret |-> 0, rop |-> 0]
      ELSE [ret |-> 1, rop |-> r[2] % op2]

\* ------------------------------------------------- fnCreate_pseudo_prime
\* mpz_urandomb(n, rndState, nNumBits - 1) returns a value of this set
RandomBits(bits) == 0..(Pow2(bits) - 1)

\* variant of Candidate: the top bit is set one position too high
CandidateWide(r, bits) ==
  LET x == r + Pow2(bits)
  IN  IF x % 2 = 0 THEN x + 1 ELSE x

\* the candidate built from the draw r: the top bit is added, then 1 is
\* added when the sum is even
Candidate(r, bits) ==
  LET x == r + Pow2(bits - 1)
  IN  IF x % 2 = 0 THEN x + 1 ELSE x

\* 1 shifted left by j, j = nNumBits <= 100 ? 0 : nNumBits - 100
DiffThreshold(bits) == Pow2(IF bits <= 100 THEN 0 ELSE bits - 100)

\* variant of TooClose: n is compared with the result parameter, still 0,
\* instead of the companion
TooCloseWrongOperand(x, cmp, bits) == Abs(x - 0) <= DiffThreshold(bits)

\* line 5.4: |n - mpzCompare| <= 2^j, the pass is abandoned (continue)
TooClose(x, cmp, bits) == Abs(x - cmp) <= DiffThreshold(bits)

\* variant of TooSmall: the bound is shifted one bit less
TooSmallLoose(x, bits) == x * x < Pow2(2 * bits - 2)

\* line 4.4: n^2 < 2^(2*nNumBits - 1), the pass is abandoned (continue)
TooSmall(x, bits) == x * x < Pow2(2 * bits - 1)

\* variant of RelPrime: the gcd is taken of n instead of n - 1
RelPrimeOfN(x, e) == GCD(x, e) = 1

\* line 4.5: gcd(n - 1, e) = 1
RelPrime(x, e) == GCD(x - 1, e) = 1

\* variant of LoopTail: the ceiling is compared with > instead of >=
LoopTailLate(cnt, bits) == [i |-> cnt + 1, exit |-> cnt + 1 > 5 * bits]

\* variant of LoopTail: the i++ is missing
LoopTailNoCount(cnt, bits) == [i |-> cnt, exit |-> cnt >= 5 * bits]

\* the end of the loop body: i++, then exit(1) when i >= 5 * nNumBits
LoopTail(cnt, bits) == [i |-> cnt + 1, exit |-> cnt + 1 >= 5 * bits]

\* a pass abandoned by continue
Skip(cnt) == IF cnt >= SkipCap THEN cnt ELSE cnt + 1

\* each mpz_urandomb call advances the generator
Advance(s) == (s + 1) % RndPeriod

\* One pass through the body of while(1) in fnCreate_pseudo_prime, called
\* by main with flTestDiff = 0 for the first prime and 1 for the second.
CreatePseudoPrime(flTestDiff) ==
  /\ pc = (IF flTestDiff = 1 THEN "p2" ELSE "p1")
  /\ \E r \in RandomBits(nHalfLen - 1) :
       LET cand       == Candidate(r, nHalfLen)
           mpzCompare == IF flTestDiff = 1 THEN mpzP1 ELSE mpzP2
           tested     == RelPrime(cand, mpzE)
           rv         == IF tested THEN ProbabPrime(cand, NUMTESTS) ELSE retval
           tail       == LoopTail(i, nHalfLen)
       IN  /\ rndState' = Advance(rndState)
           /\ IF flTestDiff = 1 /\ TooClose(cand, mpzCompare, nHalfLen)
              THEN \* continue
                   /\ n' = cand
                   /\ skipped' = Skip(skipped)
                   /\ last' = "diff"
                   /\ UNCHANGED <<pc, mpzP1, mpzP2, i, retval, err>>
              ELSE IF TooSmall(cand, nHalfLen)
              THEN \* continue
                   /\ n' = cand
                   /\ skipped' = Skip(skipped)
                   /\ last' = "square"
                   /\ UNCHANGED <<pc, mpzP1, mpzP2, i, retval, err>>
              ELSE IF tested /\ rv >= 1
              THEN \* break; mpz_set(mpzPrime, n); return to main, which
                   \* makes its next call (locals of that call start at 0)
                   /\ retval' = rv
                   /\ last' = "accept"
                   /\ IF flTestDiff = 1
                      THEN mpzP2' = cand /\ pc' = "derive" /\ UNCHANGED mpzP1
                      ELSE mpzP1' = cand /\ pc' = "p2" /\ UNCHANGED mpzP2
                   /\ n' = 0 /\ i' = 0 /\ skipped' = 0
                   /\ UNCHANGED err
              ELSE \* i++; exit(1) at the ceiling
                   /\ n' = cand
                   /\ retval' = rv
                   /\ last' = (IF tested THEN "prime" ELSE "gcd")
                   /\ i' = tail.i
                   /\ IF tail.exit
                      THEN pc' = "exit" /\ err' = "RetryExhausted"
                      ELSE UNCHANGED <<pc, err>>
                   /\ UNCHANGED <<mpzP1, mpzP2, skipped>>
  /\ UNCHANGED <<nBitLen, nHalfLen, mpzE, mpzD, warned>>

\* -------------------------------------------------- fnCompute_exponent_d
\* variant of Phi: the final mpz_add_ui is missing
PhiNoOne(p, q) == p * q - p - q

\* temp = p*q - p - q + 1
Phi(p, q) == p * q - p - q + 1

\* variant of ExponentD: the inverse is taken modulo p*q
ExponentDModN(p, e, q, bits) ==
  LET inv == Invert(e, p * q)
  IN  [fatal |-> inv.ret = 0,
       d     |-> inv.rop,
       warn  |-> inv.ret # 0 /\ inv.rop < Pow2(bits)]

\* variant of ExponentD: a d below 2^nNumBits ends the process too
ExponentDWarnFatal(p, e, q, bits) ==
  LET inv == Invert(e, Phi(p, q))
  IN  [fatal |-> inv.ret = 0 \/ inv.rop < Pow2(bits),
       d     |-> inv.rop,
       warn  |-> inv.ret # 0 /\ inv.rop < Pow2(bits)]

\* what the function does with p, e, q and nNumBits: exit(1) when
\* mpz_invert returns 0, else d, with a warning when d < 2^nNumBits
ExponentD(p, e, q, bits) ==
  LET inv == Invert(e, Phi(p, q))
  IN  [fatal |-> inv.ret = 0,
       d     |-> inv.rop,
       warn  |-> inv.ret # 0 /\ inv.rop < Pow2(bits)]

ComputeExponentD ==
  /\ pc = "derive"
  /\ LET r == ExponentD(mpzP1, mpzE, mpzP2, nHalfLen)
     IN  IF r.fatal
         THEN /\ pc' = "exit"
              /\ err' = "NotInvertible"
              /\ UNCHANGED <<mpzD, warned>>
         ELSE /\ pc' = "done"
              /\ mpzD' = r.d
              /\ warned' = r.warn
              /\ UNCHANGED err
  /\ UNCHANGED <<nBitLen, nHalfLen, mpzE, mpzP1, mpzP2, rndState,
                 i, n, retval, skipped, last>>

\* ------------------------------------------------------- input functions
\* key lengths typed at the prompt; each prime has at least one bit
KeyLengths == 2..MaxKeyLen

\* fnGet_key_length; nHalfLen = nBitLen / 2
GetKeyLength ==
  /\ pc = "getlen"
  /\ \E len \in KeyLengths :
       /\ nBitLen' = len
       /\ nHalfLen' = len \div 2
  /\ pc' = "seed"
  /\ UNCHANGED <<mpzE, mpzP1, mpzP2, mpzD, rndState, i, n, retval, err,
                 warned, skipped, last>>

\* gmp_randinit_default; fnGet_rand_seed; gmp_randseed_ui
GetRandSeed ==
  /\ pc = "seed"
  /\ rndState' = 0
  /\ pc' = "gete"
  /\ UNCHANGED <<nBitLen, nHalfLen, mpzE, mpzP1, mpzP2, mpzD, i, n, retval,
                 err, warned, skipped, last>>

\* values of e typed at the prompt
ExplicitE == 0..MaxE

\* fnGet_exponent_e, answer Y: the value typed is returned as it is
GetExponentExplicit ==
  /\ pc = "gete"
  /\ \E v \in ExplicitE : mpzE' = v
  /\ pc' = "p1"
  /\ UNCHANGED <<nBitLen, nHalfLen, mpzP1, mpzP2, mpzD, rndState, i, n,
                 retval, err, warned, skipped, last>>

\* fnGet_exponent_e, answer N: the function enters its while(1) loop
GetExponentRandom ==
  /\ pc = "gete"
  /\ pc' = "rande"
  /\ UNCHANGED <<nBitLen, nHalfLen, mpzE, mpzP1, mpzP2, mpzD, rndState, i,
                 n, retval, err, warned, skipped, last>>

\* a sample of the values mpz_urandomb(temp, rndState, 256) returns
EDraws == {2, 65535, 65536, 65537}

\* one pass through the loop: an even draw and a draw below 65536 are
\* drawn again (a draw of 256 bits never exceeds the bound 2^256)
DrawExponent ==
  /\ pc = "rande"
  /\ \E temp \in EDraws :
       /\ rndState' = Advance(rndState)
       /\ IF temp % 2 = 0 \/ temp < 65536
          THEN UNCHANGED <<pc, mpzE>>
          ELSE mpzE' = temp /\ pc' = "p1"
  /\ UNCHANGED <<nBitLen, nHalfLen, mpzP1, mpzP2, mpzD, i, n, retval, err,
                 warned, skipped, last>>

\* --------------------------------------------------------- specifications
\* main after its step 2 (mpz_inits and the mpz_set_ui calls)
Init ==
  /\ pc = "getlen"
  /\ nBitLen = 0 /\ nHalfLen = 0
  /\ mpzE = 1 /\ mpzP1 = 0 /\ mpzP2 = 0 /\ mpzD = 1
  /\ rndState = "unseeded"
  /\ i = 0 /\ n = 0 /\ retval = 0
  /\ err = "none" /\ warned = FALSE
  /\ skipped = 0 /\ last = "none"

Next ==
  \/ GetKeyLength
  \/ GetRandSeed
  \/ GetExponentExplicit
  \/ GetExponentRandom
  \/ DrawExponent
  \/ CreatePseudoPrime(0)
  \/ CreatePseudoPrime(1)
  \/ ComputeExponentD

Spec == Init /\ [][Next]_vars

\* the process is sequential and always takes its next step
LiveSpec == Init /\ [][Next]_vars /\ WF_vars(Next)

\* fnCompute_exponent_d on its own: any p, q >= 2, any e, any nNumBits
InitDerive ==
  /\ pc = "derive"
  /\ mpzP1 \in 2..MaxP /\ mpzP2 \in 2..MaxP
  /\ mpzE \in ExplicitE \cup {65537}
  /\ nHalfLen \in 1..(MaxKeyLen \div 2)
  /\ nBitLen = 2 * nHalfLen
  /\ mpzD = 1
  /\ rndState = 0
  /\ i = 0 /\ n = 0 /\ retval = 0
  /\ err = "none" /\ warned = FALSE
  /\ skipped = 0 /\ last = "none"

NextDerive == ComputeExponentD

DeriveSpec == InitDerive /\ [][NextDerive]_vars

\* ================================================================ claims
InGenerate == pc \in {"p1", "p2"}
BothAccepted == mpzP1 # 0 /\ mpzP2 # 0

C2_ReturnedCandidate ==
  LET Shaped(x) == /\ Pow2(nHalfLen - 1) <= x
                   /\ x < Pow2(nHalfLen)
                   /\ x % 2 = 1
      Good(x)   == Shaped(x) /\ ProbabPrime(x, NUMTESTS) >= 1
  IN  /\ mpzP1 # 0 => Good(mpzP1)
      /\ mpzP2 # 0 => Good(mpzP2)
      /\ last = "accept" => retval >= 1
      /\ (InGenerate /\ n # 0) => Shaped(n)

\* C2 witness: both calls returned, the second with the largest 5 bit value
C2_Witness == pc = "derive" /\ nHalfLen = 5 /\ mpzP1 = 23 /\ mpzP2 = 31

C4_ProductReachesKeyLength ==
  BothAccepted => mpzP1 * mpzP2 >= Pow2(nBitLen - 1)

\* C4 as amended: when both primes are accepted, each satisfies
\* n^2 >= 2^(2*halfLen - 1) and p*q >= 2^(2*halfLen - 1); this is
\* 2^(nlen - 1) when nlen is even. (For an odd nlen, halfLen = (nlen-1)/2
\* and the product may stay below 2^(nlen - 1).)
C4_ProductReachesTwiceHalfLen ==
  BothAccepted
    => /\ mpzP1 * mpzP1 >= Pow2(2 * nHalfLen - 1)
       /\ mpzP2 * mpzP2 >= Pow2(2 * nHalfLen - 1)
       /\ mpzP1 * mpzP2 >= Pow2(2 * nHalfLen - 1)
       /\ nBitLen % 2 = 0 => mpzP1 * mpzP2 >= Pow2(nBitLen - 1)

\* C4 witness: both primes accepted for an even key length
C4_Witness == BothAccepted /\ nBitLen = 10 /\ pc = "done"

C6_NotInvertibleExactly ==
  pc # "derive"
    => LET phi == (mpzP1 - 1) * (mpzP2 - 1)
       IN  /\ (err = "NotInvertible") = (GCD(mpzE, phi) > 1)
           /\ err = "NotInvertible"
                => pc = "exit" /\ mpzD = 1 /\ ~warned
           /\ err # "NotInvertible"
                => /\ pc = "done"
                   /\ (mpzD * mpzE) % phi = 1 % phi
                   /\ warned = (mpzD < Pow2(nHalfLen))

\* C6 witness: the function failed for an e > 1 sharing a factor with phi
C6_Witness == err = "NotInvertible" /\ mpzE > 1 /\ pc = "exit"

\* C7: every accepted prime p has gcd(p - 1, e) = 1; with an even e no
\* candidate is ever accepted.
C7_AcceptedCoprime ==
  /\ mpzP1 # 0 => GCD(mpzP1 - 1, mpzE) = 1
  /\ mpzP2 # 0 => GCD(mpzP2 - 1, mpzE) = 1
  /\ (pc \in {"p1", "p2", "derive", "done", "exit"} /\ mpzE % 2 = 0)
       => mpzP1 = 0 /\ mpzP2 = 0 /\ pc \in {"p1", "exit"}

\* C7 witness: with e = 3 the first call counted a rejection for the gcd
\* check (31 - 1 is a multiple of 3)
C7_Witness == pc = "p1" /\ mpzE = 3 /\ n = 31 /\ last = "gcd"

C10_DeriveNeverFails ==
  /\ err # "NotInvertible"
  /\ pc = "derive"
       => mpzE >= 1 /\ GCD(mpzE, (mpzP1 - 1) * (mpzP2 - 1)) = 1
  /\ pc = "done"
       => (mpzD * mpzE) % ((mpzP1 - 1) * (mpzP2 - 1)) = 1

\* C10 witness: main reached its end with d computed for e = 3
C10_Witness == pc = "done" /\ mpzE = 3 /\ err = "none" /\ mpzD > 1

====
